---- MODULE Spec2Model ----
(***************************************************************************)
(* Session/media store of the recording app (src/services/db.ts) together  *)
(* with the callers that build its inputs (CameraView.saveMedia,           *)
(* SessionDetail.handleDragEnd).  Every exported store function runs in    *)
(* one IndexedDB transaction, so each is one atomic action here.           *)
(* The second part is the merge player of SessionDetail: React state, the  *)
(* state updates its handlers queue, and the mounted <video> element.      *)
(* The third part is the single preview of SessionDetail, the fourth the   *)
(* recording and flag workflow of CameraView with its saves in flight.     *)
(* The fifth part is the crop editor of TrimView, computing on doubles, and *)
(* the sixth is addMediaItem taken request by request, for calls that      *)
(* overlap.                                                                *)
(***************************************************************************)
EXTENDS Integers, Sequences, FiniteSets, TLC

\* ------------------------------------------------------------------ bounds
MaxSessions == 2      \* session ids crypto.randomUUID() can hand out
MaxMedia    == 3      \* media ids a caller can use
MaxNow      == 1      \* largest reading of Date.now()
MaxOps      == 4      \* store calls in one run
ClipLength  == 2      \* the position at which a played video ends

SessionIds == 1..MaxSessions
MediaIds   == 1..MaxMedia
\* the readings of Date.now(): the wall clock, which the system may set back
Times      == 0..MaxNow
Names      == {"Session"}

\* an optional field (`trimEndTime?`, `crop?`): absent, or holding v
Undefined == << >>
Some(v) == <<v>>

\* ----------------------------------------------------------------- numbers
\* A JavaScript number is an IEEE 754 double: 53 significant bits, results
\* rounded to nearest, ties to even.  The crop editor works in [-2, 2] on
\* values that are multiples of 2^-56, so a number n * 2^-56 is held as the
\* pair <<n \div Limb, n % Limb>>.
Limb == 2^28

Zero  == <<0, 0>>
One   == <<Limb, 0>>
\* the literal 0.1: the double 7205759403792794 * 2^-56
Tenth == <<26843545, 161061274>>

\* carry the low limb into the high one
carry(hi, lo) == <<hi + (lo \div Limb), lo % Limb>>

exactSum(a, b) == carry(a[1] + b[1], a[2] + b[2])
negate(a) == carry(-a[1], -a[2])
less(a, b) == a[1] < b[1] \/ (a[1] = b[1] /\ a[2] < b[2])
lessEq(a, b) == ~less(b, a)

\* the distance between neighbouring doubles at a magnitude, in units of 2^-56
spacing(m) ==
    IF m[1] < 2^25 THEN 1
    ELSE IF m[1] < 2^26 THEN 2
    ELSE IF m[1] < 2^27 THEN 4
    ELSE IF m[1] < 2^28 THEN 8
    ELSE IF m[1] < 2^29 THEN 16
    ELSE 32

\* the double nearest to a magnitude, ties to the even significand
roundMagnitude(m) ==
    LET q    == spacing(m)
        r    == m[2] % q
        down == m[2] - r
        up   == 2 * r > q \/ (2 * r = q /\ (down \div q) % 2 = 1)
    IN  carry(m[1], IF up THEN down + q ELSE down)

\* the double an exact result is rounded to
round(a) == IF less(a, Zero) THEN negate(roundMagnitude(negate(a)))
                             ELSE roundMagnitude(a)

\* a + b and a - b as JavaScript computes them
plus(a, b)  == round(exactSum(a, b))
minus(a, b) == round(exactSum(a, negate(b)))

\* Math.max and Math.min
max(a, b) == IF less(a, b) THEN b ELSE a
min(a, b) == IF less(a, b) THEN a ELSE b

\* useState<CropRect>({ x: 0, y: 0, width: 1, height: 1 }), and resetCrop's value
fullCrop == [x |-> Zero, y |-> Zero, width |-> One, height |-> One]

VARIABLES
    sessions,   \* object store 'sessions': id -> Session record
    media,      \* object store 'media':    id -> MediaItem record
    issued,     \* the session ids createSession has stored, in insertion order
    last,       \* the store call that completed last, and how it settled
    ops,        \* store calls completed so far
    listed,             \* SessionDetail: the `media` state, as loadData set it
    isMerging,          \* SessionDetail: state, as of the last render
    mergeQueue,         \* SessionDetail: state, as of the last render
    currentMergeIndex,  \* SessionDetail: state, as of the last render
    updates,            \* state updates queued by handlers and not rendered yet
    video,              \* the mounted merge <video>: its key, currentTime, ended
    crashed,            \* a render has thrown and React has unmounted the app
    previewItem,        \* SessionDetail: state, the item shown in the preview
    previewVideo,       \* the mounted preview <video>: its currentTime, paused
    skipFlagPrompt,     \* localStorage: sessioncam_skip_flag_prompt is 'true'
    isRecording,        \* CameraView: state
    stopping,           \* the recorder has been stopped and onstop is to run
    showFlagModal,      \* CameraView: state
    pendingFlaggedBlob, \* CameraView: state
    dontRemindFlag,     \* CameraView: state
    saves,              \* the saveMedia calls made, with how each has settled
    view,               \* App: state, the view shown
    blobs,              \* the blobs the recorder has built from recordings
    crop,               \* TrimView: state, the crop rectangle
    isDraggingCrop,     \* TrimView: state
    dragStartRef,       \* TrimView: dragStartRef.current
    transactions        \* the addMediaItem transactions created, in creation order

storeVars == <<sessions, media, issued, last, ops>>
previewVars == <<previewItem, previewVideo>>
cameraVars == <<skipFlagPrompt, isRecording, stopping, showFlagModal,
                pendingFlaggedBlob, dontRemindFlag, saves, view, blobs>>
editorVars == <<crop, isDraggingCrop, dragStartRef>>
detailVars == <<listed, isMerging, mergeQueue, currentMergeIndex, updates, video,
                crashed, previewItem, previewVideo>>
vars == <<sessions, media, issued, last, ops, listed, isMerging, mergeQueue,
          currentMergeIndex, updates, video, crashed, previewItem, previewVideo,
          skipFlagPrompt, isRecording, stopping, showFlagModal, pendingFlaggedBlob,
          dontRemindFlag, saves, view, blobs, crop, isDraggingCrop, dragStartRef,
          transactions>>

\* ------------------------------------------------------------ small helpers
RECURSIVE SetToSeq(_)
\* the elements of a set of keys in ascending key order (IndexedDB's getAll order)
SetToSeq(S) ==
    IF S = {} THEN << >>
    ELSE LET x == CHOOSE y \in S : \A z \in S : y <= z
         IN  <<x>> \o SetToSeq(S \ {x})

\* the set of elements of a sequence
Range(s) == { s[i] : i \in 1..Len(s) }

\* what a call reports, the record kept in `last`: tx.oncomplete resolves the
\* promise (ok), tx.onerror rejects it (not ok); either way it has settled
Call(op, sid, ids, ok) ==
    [op |-> op, sid |-> sid, ids |-> ids, ok |-> ok, settled |-> TRUE]

\* a call whose transaction fired neither `complete` nor `error`
Unsettled(op) ==
    [op |-> op, sid |-> 0, ids |-> << >>, ok |-> FALSE, settled |-> FALSE]

\* (mutant) the writes made before the failure stay
abortedKeepsWrites(before, written) == written

\* an aborted transaction: the store is as it was before its first write
aborted(before, written) == before

\* ------------------------------------------------------------ the two stores
\* IDBObjectStore.put: insert, or overwrite the record with the same key
put(m, item) ==
    [k \in (DOMAIN m) \cup {item.id} |-> IF k = item.id THEN item ELSE m[k]]

\* the 'sessionId' index: primary keys of the media items of one session
keysOfSession(m, sid) == { k \in DOMAIN m : m[k].sessionId = sid }

\* index.count(item.sessionId)
countOfSession(m, sid) == Cardinality(keysOfSession(m, sid))

\* (mutant) the cascade is forgotten: no media item is deleted
deleteNoKeys(m, keys) == m

\* (mutant) the cascade empties the media store
deleteEveryKey(m, keys) == << >>

\* keys.forEach(key => mediaStore.delete(key))
deleteKeys(m, keys) == [k \in (DOMAIN m) \ keys |-> m[k]]

\* sessionStore.delete(id)
deleteSessionRecord(s, id) == [k \in (DOMAIN s) \ {id} |-> s[k]]

\* ---------------------------------------------------------------- the reads
\* (mutant) the createdAt fallback is dropped
compareByOrder(a, b) == a.order - b.order

\* (a.order ?? 0) - (b.order ?? 0) || a.createdAt - b.createdAt
compareMedia(a, b) ==
    IF a.order # b.order THEN a.order - b.order ELSE a.createdAt - b.createdAt

RECURSIVE insertMedia(_, _)
\* Array.prototype.sort is stable: x goes after every element not greater than it
insertMedia(sorted, x) ==
    IF sorted = << >> THEN <<x>>
    ELSE IF compareMedia(Head(sorted), x) <= 0
         THEN <<Head(sorted)>> \o insertMedia(Tail(sorted), x)
         ELSE <<x>> \o sorted

RECURSIVE sortMedia(_)
sortMedia(items) ==
    IF items = << >> THEN << >>
    ELSE insertMedia(sortMedia(SubSeq(items, 1, Len(items) - 1)), items[Len(items)])

\* getMediaForSession on a given media store
mediaForSession(m, sid) ==
    LET keys == SetToSeq(keysOfSession(m, sid))
    IN  sortMedia([i \in 1..Len(keys) |-> m[keys[i]]])

getMediaForSession(sid) == mediaForSession(media, sid)

RECURSIVE insertSession(_, _)
\* b.lastModified - a.lastModified, stable
insertSession(sorted, x) ==
    IF sorted = << >> THEN <<x>>
    ELSE IF x.lastModified - Head(sorted).lastModified <= 0
         THEN <<Head(sorted)>> \o insertSession(Tail(sorted), x)
         ELSE <<x>> \o sorted

RECURSIVE sortSessions(_)
sortSessions(ss) ==
    IF ss = << >> THEN << >>
    ELSE insertSession(sortSessions(SubSeq(ss, 1, Len(ss) - 1)), ss[Len(ss)])

\* getSessions on a given session store
sessionsOf(s) ==
    LET keys == SetToSeq(DOMAIN s)
    IN  sortSessions([i \in 1..Len(keys) |-> s[keys[i]]])

getSessions == sessionsOf(sessions)

getMediaItem(id) == IF id \in DOMAIN media THEN Some(media[id]) ELSE Undefined

\* the ids of a listing, in its order
idsOf(items) == [i \in 1..Len(items) |-> items[i].id]

\* ------------------------------------------------------------ createSession
\* crypto.randomUUID(): an id that occurs nowhere yet
freshSessionId(id) ==
    /\ id \in SessionIds \ Range(issued)
    /\ keysOfSession(media, id) = {}

newSession(id, name, t) ==
    [id |-> id, name |-> name, createdAt |-> t, lastModified |-> t, itemCount |-> 0]

createSession(name, id, t) ==
    /\ freshSessionId(id)
    /\ sessions' = put(sessions, newSession(id, name, t))
    /\ issued' = Append(issued, id)
    /\ last' = Call("createSession", id, << >>, TRUE)
    /\ UNCHANGED media

\* ------------------------------------------------------------ deleteSession
deleteSession(id) ==
    /\ sessions' = deleteSessionRecord(sessions, id)
    /\ media' = deleteKeys(media, keysOfSession(media, id))
    /\ last' = Call("deleteSession", id, SetToSeq(keysOfSession(media, id)), TRUE)
    /\ UNCHANGED issued

\* ------------------------------------------------------------- addMediaItem
\* (mutant) the caller's order is stored as given
withSuppliedOrder(m, item) == item

\* item.order = count; mediaStore.add(item)
withTailOrder(m, item) == [item EXCEPT !.order = countOfSession(m, item.sessionId)]

\* (mutant) the itemCount increment is forgotten
bumpOnAddKeepsCount(s, sid, t) ==
    IF sid \in DOMAIN s THEN [s EXCEPT ![sid].lastModified = t] ELSE s

\* session.itemCount += 1; session.lastModified = Date.now(); put(session)
bumpOnAdd(s, sid, t) ==
    IF sid \in DOMAIN s
    THEN [s EXCEPT ![sid].itemCount = @ + 1, ![sid].lastModified = t]
    ELSE s

addMediaItem(item, t) ==
    IF item.id \in DOMAIN media
    THEN \* mediaStore.add on an existing key: ConstraintError, the transaction aborts
         /\ last' = Call("addMediaItem", item.sessionId, <<item.id>>, FALSE)
         /\ UNCHANGED <<sessions, media, issued>>
    ELSE /\ media' = put(media, withTailOrder(media, item))
         /\ sessions' = bumpOnAdd(sessions, item.sessionId, t)
         /\ last' = Call("addMediaItem", item.sessionId, <<item.id>>, TRUE)
         /\ UNCHANGED issued

\* ---------------------------------------------------------- updateMediaItem
\* session.lastModified = Date.now(); put(session)
bumpOnUpdate(s, sid, t) ==
    IF sid \in DOMAIN s THEN [s EXCEPT ![sid].lastModified = t] ELSE s

updateMediaItem(item, t) ==
    /\ media' = put(media, item)
    /\ sessions' = bumpOnUpdate(sessions, item.sessionId, t)
    /\ last' = Call("updateMediaItem", item.sessionId, <<item.id>>, TRUE)
    /\ UNCHANGED issued

\* --------------------------------------------------------- updateMediaItems
RECURSIVE putAll(_, _)
\* items.forEach(item => store.put(item))
putAll(m, items) ==
    IF items = << >> THEN m ELSE putAll(put(m, Head(items)), Tail(items))

updateMediaItems(items) ==
    /\ media' = putAll(media, items)
    /\ last' = Call("updateMediaItems", 0, idsOf(items), TRUE)
    /\ UNCHANGED <<sessions, issued>>

\* ---------------------------------------------------------- storage failures
\* a request of the transaction fails: its error event bubbles to tx.onerror and
\* the transaction aborts.  s and m are the stores with the writes made so far.
requestFails(op, s, m) ==
    /\ sessions' = aborted(sessions, s)
    /\ media' = aborted(media, m)
    /\ last' = Call(op, 0, << >>, FALSE)
    /\ UNCHANGED issued

\* every request succeeded but the commit fails: the transaction aborts and fires
\* `abort` only, for which no function of db.ts registers a handler
commitFails(op, s, m) ==
    /\ sessions' = aborted(sessions, s)
    /\ media' = aborted(media, m)
    /\ last' = Unsettled(op)
    /\ UNCHANGED issued

\* addMediaItem: mediaStore.add fails, or sessionStore.put after it, or the commit
addMediaItemFails(item, t, step) ==
    LET added == put(media, withTailOrder(media, item))
        bumped == bumpOnAdd(sessions, item.sessionId, t)
    IN  CASE step = "add"    -> requestFails("addMediaItem", sessions, media)
          [] step = "put"    -> requestFails("addMediaItem", sessions, added)
          [] step = "commit" -> commitFails("addMediaItem", bumped, added)

\* deleteSession: index.getAllKeys fails after the session went, or one of the
\* mediaStore.delete calls after `gone` were deleted, or the commit
deleteSessionFails(id, gone, step) ==
    LET keys == keysOfSession(media, id)
        s == deleteSessionRecord(sessions, id)
    IN  CASE step = "getAllKeys" -> requestFails("deleteSession", s, media)
          [] step = "delete"     -> requestFails("deleteSession", s, deleteKeys(media, gone))
          [] step = "commit"     -> commitFails("deleteSession", s, deleteKeys(media, keys))

\* updateMediaItems: the put after the first n fails, or the commit
updateMediaItemsFails(items, n, step) ==
    CASE step = "put"    -> requestFails("updateMediaItems", sessions,
                                         putAll(media, SubSeq(items, 1, n)))
      [] step = "commit" -> commitFails("updateMediaItems", sessions,
                                        putAll(media, items))

\* (mutant) the new index is not written into the items
dragEndKeepsOrder(list) == list

\* SessionDetail.handleDragEnd: media.map((item, index) => ({...item, order: index}))
dragEndUpdates(list) == [i \in 1..Len(list) |-> [list[i] EXCEPT !.order = i - 1]]

\* -------------------------------------------------------------- the inputs
\* CameraView.saveMedia: the item handed to addMediaItem, always with order 0
\* and without trimEndTime or crop.  The blob is named after the capture.
saveMediaItem(id, sid, t, flagged) ==
    [id |-> id, sessionId |-> sid, type |-> "video", blob |-> id, createdAt |-> t,
     duration |-> 0, trimNeeded |-> flagged, trimEndTime |-> Undefined,
     order |-> 0, crop |-> Undefined]

\* the trim points and crop rectangles the editor is left at when saving
EndTimes == {1}
Crops == {fullCrop}

\* (mutant) the save stamps the item anew
performSaveRestamps(item, endTime, rect) ==
    [item EXCEPT !.trimNeeded = FALSE, !.trimEndTime = Some(endTime),
                 !.duration = endTime, !.crop = Some(rect), !.createdAt = endTime]

\* (mutant) the save files the item at the front of its session
performSaveMovesToFront(item, endTime, rect) ==
    [item EXCEPT !.trimNeeded = FALSE, !.trimEndTime = Some(endTime),
                 !.duration = endTime, !.crop = Some(rect), !.order = 0]

\* TrimView.performSave: {...item, trimNeeded: false, trimEndTime: endTime,
\* duration: endTime, crop: crop}
performSaveItem(item, endTime, rect) ==
    [item EXCEPT !.trimNeeded = FALSE, !.trimEndTime = Some(endTime),
                 !.duration = endTime, !.crop = Some(rect)]

\* crypto.randomUUID() in saveMedia: an id no stored item has.  The store never
\* looks into a media id, so the least unused one stands for any of them.
freshMediaId(id) ==
    /\ id \in MediaIds \ DOMAIN media
    /\ \A other \in MediaIds \ DOMAIN media : id <= other

\* lists of stored ids a drag can leave in SessionDetail's `media`: no id twice
IdLists ==
    { l \in UNION { [1..n -> DOMAIN media] : n \in 1..Cardinality(DOMAIN media) } :
        \A i, j \in 1..Len(l) : i # j => l[i] # l[j] }

\* the copy of a trimmed item that a list loaded before the trim still holds:
\* only flagged videos open the editor, and saveMedia had stored them like this
beforeTrim(item) ==
    [item EXCEPT !.trimNeeded = TRUE, !.trimEndTime = Undefined,
                 !.duration = 0, !.crop = Undefined]

\* the items a trim has been saved for
trimmed(ids) == { k \in ids : media[k].trimEndTime # Undefined }

\* SessionDetail's `media` as loadData left it: the stored records of ids, the
\* ones in `stale` as they were before their trim was saved
loadedCopies(ids, stale) ==
    [i \in 1..Len(ids) |-> IF ids[i] \in stale THEN beforeTrim(media[ids[i]])
                                                ELSE media[ids[i]]]


\* the session ids a call is given: every stored one and one that is not stored
\* (a single call treats all ids that are not stored alike)
SessionArgs ==
    DOMAIN sessions \cup
      { sid \in SessionIds \ DOMAIN sessions :
          \A other \in SessionIds \ DOMAIN sessions : sid <= other }

\* one more store call of the run; no store call touches the state of a view
tally == ops < MaxOps /\ ops' = ops + 1 /\ UNCHANGED <<detailVars, cameraVars, editorVars, transactions>>

\* ------------------------------------------------------------------- Spec
Init ==
    /\ sessions = << >>
    /\ media = << >>
    /\ issued = << >>
    /\ last = Call("none", 0, << >>, TRUE)
    /\ ops = 0
    /\ listed = << >>
    /\ isMerging = FALSE
    /\ mergeQueue = << >>
    /\ currentMergeIndex = 0
    /\ updates = << >>
    /\ video = Undefined
    /\ crashed = FALSE
    /\ previewItem = Undefined
    /\ previewVideo = Undefined
    /\ skipFlagPrompt = FALSE
    /\ isRecording = FALSE
    /\ stopping = Undefined
    /\ showFlagModal = FALSE
    /\ pendingFlaggedBlob = Undefined
    /\ dontRemindFlag = FALSE
    /\ saves = {}
    /\ view = [name |-> "session", mediaId |-> 0]
    /\ blobs = 0
    /\ crop = fullCrop
    /\ isDraggingCrop = FALSE
    /\ dragStartRef = Undefined
    /\ transactions = << >>

CreateSession ==
    /\ tally
    /\ \E name \in Names, id \in SessionIds, t \in Times :
          /\ createSession(name, id, t)

DeleteSession ==
    /\ tally
    /\ \E id \in SessionIds : deleteSession(id)

\* stopRecording: a capture saved unflagged into any session id, stored or not.
\* saveMedia reads the clock for createdAt (t0), the store reads it again for
\* lastModified (t).
AddMediaItem ==
    /\ tally
    /\ \E id \in MediaIds, sid \in SessionArgs, t0 \in Times, t \in Times :
          /\ freshMediaId(id)
          /\ addMediaItem(saveMediaItem(id, sid, t0, FALSE), t)

\* stopRecordingFlagged: a capture saved flagged into a stored session
AddFlaggedItem ==
    /\ tally
    /\ \E id \in MediaIds, sid \in DOMAIN sessions, t0 \in Times, t \in Times :
          /\ freshMediaId(id)
          /\ addMediaItem(saveMediaItem(id, sid, t0, TRUE), t)

\* addMediaItem given an item whose id is already stored
AddStoredItem ==
    /\ tally
    /\ \E id \in DOMAIN media, t \in Times :
          /\ addMediaItem(saveMediaItem(id, media[id].sessionId, t, FALSE), t)

\* the trim editor saving a stored item; handleMediaClick and handleModalFixNow
\* open it for flagged videos only
SaveMediaItem ==
    /\ tally
    /\ \E id \in DOMAIN media, t \in Times, endTime \in EndTimes, rect \in Crops :
          /\ media[id].trimNeeded /\ media[id].type = "video"
          /\ updateMediaItem(performSaveItem(media[id], endTime, rect), t)

\* updateMediaItem given an item whose id is not stored
UpdateUnknownItem ==
    /\ tally
    /\ \E id \in MediaIds, sid \in SessionArgs, t \in Times :
          /\ freshMediaId(id)
          /\ updateMediaItem(saveMediaItem(id, sid, t, FALSE), t)

\* a drag-and-drop reorder persisting any list of stored ids, loaded before or
\* after the trims of its items were saved
ReorderMediaItems ==
    /\ tally
    /\ \E ids \in IdLists : \E stale \in SUBSET trimmed(Range(ids)) :
          updateMediaItems(dragEndUpdates(loadedCopies(ids, stale)))

\* addMediaItem hitting a storage failure
AddMediaItemFails ==
    /\ tally
    /\ \E id \in MediaIds, sid \in DOMAIN sessions, t \in Times,
          step \in {"add", "put", "commit"} :
          /\ freshMediaId(id)
          /\ addMediaItemFails(saveMediaItem(id, sid, t, FALSE), t, step)

\* deleteSession hitting a storage failure
DeleteSessionFails ==
    /\ tally
    /\ \E id \in DOMAIN sessions, step \in {"getAllKeys", "delete", "commit"} :
          \E gone \in SUBSET keysOfSession(media, id) :
             /\ gone # keysOfSession(media, id)
             /\ deleteSessionFails(id, gone, step)

\* a reorder hitting a storage failure
ReorderMediaItemsFails ==
    /\ tally
    /\ \E ids \in IdLists, step \in {"put", "commit"} : \E n \in 0..(Len(ids) - 1) :
          updateMediaItemsFails(dragEndUpdates(loadedCopies(ids, {})), n, step)

\* the store under every call its functions accept
Next ==
    \/ CreateSession
    \/ DeleteSession
    \/ AddMediaItem
    \/ AddStoredItem
    \/ UpdateUnknownItem
    \/ ReorderMediaItems

Spec == Init /\ [][Next]_vars

\* the store under the review workflow (flag, trim, reorder) and storage failures
ReviewNext ==
    \/ CreateSession
    \/ DeleteSession
    \/ AddFlaggedItem
    \/ SaveMediaItem
    \/ ReorderMediaItems
    \/ AddMediaItemFails
    \/ DeleteSessionFails
    \/ ReorderMediaItemsFails

ReviewSpec == Init /\ [][ReviewNext]_vars

\* ------------------------------------------------ SessionDetail: merge player
\* a value used as a condition (`currentItem.trimEndTime &&`): undefined and 0
\* are falsy
truthy(opt) == opt # Undefined /\ opt[1] # 0

\* the React state of the last render, which the handlers of that render close over
state ==
    [isMerging |-> isMerging, mergeQueue |-> mergeQueue,
     currentMergeIndex |-> currentMergeIndex]

\* one queued update: setCurrentMergeIndex(prev => prev + 1) or setIsMerging(false)
applyUpdate(st, u) ==
    IF u = "inc" THEN [st EXCEPT !.currentMergeIndex = @ + 1]
                 ELSE [st EXCEPT !.isMerging = FALSE]

RECURSIVE applyUpdates(_, _)
\* React runs the queued updates in the order they were queued
applyUpdates(st, us) ==
    IF us = << >> THEN st ELSE applyUpdates(applyUpdate(st, Head(us)), Tail(us))

\* <video key={mergeQueue[currentMergeIndex].id} autoPlay>: an element whose key
\* is unchanged stays as it is, another key mounts a new one at position 0
mountVideo(key) ==
    IF video # Undefined /\ video[1].key = key
    THEN video
    ELSE Some([key |-> key, currentTime |-> 0, ended |-> FALSE])

\* (mutant) a render that leaves the <video> of a closed player mounted
renderKeepsVideo(st) ==
    /\ isMerging' = st.isMerging
    /\ mergeQueue' = st.mergeQueue
    /\ currentMergeIndex' = st.currentMergeIndex
    /\ updates' = << >>
    /\ crashed' = FALSE
    /\ video' = IF st.isMerging /\ st.currentMergeIndex < Len(st.mergeQueue)
                THEN mountVideo(st.mergeQueue[st.currentMergeIndex + 1].id)
                ELSE video

\* a render of SessionDetail with state st
render(st) ==
    /\ isMerging' = st.isMerging
    /\ mergeQueue' = st.mergeQueue
    /\ currentMergeIndex' = st.currentMergeIndex
    /\ updates' = << >>
    /\ IF st.isMerging /\ Len(st.mergeQueue) > 0
       THEN IF st.currentMergeIndex < Len(st.mergeQueue)
            THEN /\ video' = mountVideo(st.mergeQueue[st.currentMergeIndex + 1].id)
                 /\ crashed' = FALSE
            ELSE \* mergeQueue[currentMergeIndex] is undefined and `.id` throws
                 /\ video' = Undefined
                 /\ crashed' = TRUE
       ELSE /\ video' = Undefined
            /\ crashed' = FALSE

\* playNextInQueue, reading currentMergeIndex and mergeQueue of the last render
playNextInQueue ==
    Append(updates, IF currentMergeIndex < Len(mergeQueue) - 1 THEN "inc" ELSE "stop")

\* the clips a session can show: a photo, or a video with or without a trim
TrimEnds == {Undefined} \cup { Some(e) : e \in 0..ClipLength }
ClipKinds == {<<"photo", Undefined>>} \cup { <<"video", e>> : e \in TrimEnds }
ClipLists == UNION { [1..n -> ClipKinds] : n \in 0..MaxMedia }

\* the i-th stored item of the session, of the given kind
clip(i, kind) ==
    LET saved == [saveMediaItem(i, 1, 0, FALSE) EXCEPT
                    !.type = kind[1], !.order = i - 1,
                    !.duration = IF kind[1] = "video" THEN ClipLength ELSE 0]
    IN  IF kind[2] = Undefined THEN saved
        ELSE performSaveItem(saved, kind[2][1], CHOOSE c \in Crops : TRUE)

\* SessionDetail mounted on a session: loadData has set `media`
MergeInit ==
    \E clips \in ClipLists :
       /\ sessions = put(<< >>, [newSession(1, "Session", 0) EXCEPT !.itemCount = Len(clips)])
       /\ media = [i \in 1..Len(clips) |-> clip(i, clips[i])]
       /\ issued = <<1>>
       /\ last = Call("none", 0, << >>, TRUE)
       /\ ops = 0
       /\ listed = mediaForSession([i \in 1..Len(clips) |-> clip(i, clips[i])], 1)
       /\ isMerging = FALSE
       /\ mergeQueue = << >>
       /\ currentMergeIndex = 0
       /\ updates = << >>
       /\ video = Undefined
       /\ crashed = FALSE
       /\ previewItem = Undefined
       /\ previewVideo = Undefined
       /\ skipFlagPrompt = FALSE
       /\ isRecording = FALSE
       /\ stopping = Undefined
       /\ showFlagModal = FALSE
       /\ pendingFlaggedBlob = Undefined
       /\ dontRemindFlag = FALSE
       /\ saves = {}
       /\ view = [name |-> "session", mediaId |-> 0]
       /\ blobs = 0
       /\ crop = fullCrop
       /\ isDraggingCrop = FALSE
       /\ dragStartRef = Undefined
       /\ transactions = << >>

\* (mutant) the queue takes every item of the list, photos included
everyItemOf(items) == items

\* media.filter(m => m.type === 'video')
videosOf(items) == SelectSeq(items, LAMBDA m : m.type = "video")

\* the click on the merge button; React renders at the end of a click
HandleMerge ==
    /\ ~crashed /\ ~isMerging
    /\ LET videos == videosOf(listed)
       IN  IF Len(videos) = 0
           THEN UNCHANGED detailVars
           ELSE render([applyUpdates(state, updates) EXCEPT
                          !.mergeQueue = videos, !.currentMergeIndex = 0,
                          !.isMerging = TRUE])
    /\ UNCHANGED <<listed, storeVars, previewVars, cameraVars, editorVars, transactions>>

\* the video has played on to position p and reports it (timeupdate)
HandleMergeTimeUpdate ==
    /\ ~crashed /\ video # Undefined /\ ~video[1].ended
    /\ \E p \in 1..ClipLength :
          /\ p > video[1].currentTime
          /\ video' = Some([video[1] EXCEPT !.currentTime = p])
          /\ LET currentItem == mergeQueue[currentMergeIndex + 1]
             IN  updates' = IF truthy(currentItem.trimEndTime)
                               /\ p >= currentItem.trimEndTime[1]
                            THEN playNextInQueue
                            ELSE updates
    /\ UNCHANGED <<listed, isMerging, mergeQueue, currentMergeIndex, crashed, storeVars,
                   previewVars, cameraVars, editorVars, transactions>>

\* the video has played to its end (onEnded={playNextInQueue})
HandleEnded ==
    /\ ~crashed /\ video # Undefined /\ ~video[1].ended
    /\ video' = Some([video[1] EXCEPT !.currentTime = ClipLength, !.ended = TRUE])
    /\ updates' = playNextInQueue
    /\ UNCHANGED <<listed, isMerging, mergeQueue, currentMergeIndex, crashed, storeVars,
                   previewVars, cameraVars, editorVars, transactions>>

\* React renders with the queued updates
Render ==
    /\ ~crashed /\ updates # << >>
    /\ render(applyUpdates(state, updates))
    /\ UNCHANGED <<listed, storeVars, previewVars, cameraVars, editorVars, transactions>>

\* the click on the X of the player: setIsMerging(false)
CloseMerge ==
    /\ ~crashed /\ isMerging /\ Len(mergeQueue) > 0
    /\ render([applyUpdates(state, updates) EXCEPT !.isMerging = FALSE])
    /\ UNCHANGED <<listed, storeVars, previewVars, cameraVars, editorVars, transactions>>

MergeNext ==
    \/ HandleMerge
    \/ HandleMergeTimeUpdate
    \/ HandleEnded
    \/ Render
    \/ CloseMerge

MergeSpec == MergeInit /\ [][MergeNext]_vars

\* the merge player with its notifications delivered: a mounted autoPlay video
\* that has not ended keeps playing and reaches its end, and React renders the
\* updates its handlers have queued
MergeLiveSpec ==
    /\ MergeInit /\ [][MergeNext]_vars
    /\ WF_vars(HandleEnded)
    /\ WF_vars(Render)

\* ----------------------------------------------- SessionDetail: single preview
mergeVars == <<isMerging, mergeQueue, currentMergeIndex, updates, video, crashed>>

\* handlePreviewTimeUpdate on a preview video in state v showing item
handlePreviewTimeUpdate(v, item) ==
    IF truthy(item.trimEndTime) /\ v.currentTime >= item.trimEndTime[1]
    THEN [v EXCEPT !.paused = TRUE, !.currentTime = item.trimEndTime[1]]
    ELSE v

\* a click on an item of the list: a flagged video opens the trim editor, any
\* other item is shown in the preview; a video is mounted with autoPlay
HandleMediaClick ==
    /\ previewItem = Undefined /\ ~isMerging
    /\ \E i \in 1..Len(listed) :
          /\ ~(listed[i].trimNeeded /\ listed[i].type = "video")
          /\ previewItem' = Some(listed[i])
          /\ previewVideo' = IF listed[i].type = "video"
                             THEN Some([currentTime |-> 0, paused |-> FALSE])
                             ELSE Undefined
    /\ UNCHANGED <<listed, storeVars, mergeVars, cameraVars, editorVars, transactions>>

\* the preview video plays on, or the user drags its position, to p; the video
\* stops by itself at its end; the position is reported (timeupdate)
PreviewTimeUpdate ==
    /\ previewVideo # Undefined
    /\ \E p \in 0..ClipLength :
          /\ p # previewVideo[1].currentTime
          /\ previewVideo' =
                Some(handlePreviewTimeUpdate(
                       [currentTime |-> p,
                        paused |-> previewVideo[1].paused \/ p = ClipLength],
                       previewItem[1]))
    /\ UNCHANGED <<previewItem, listed, storeVars, mergeVars, cameraVars, editorVars, transactions>>

\* the user presses play on the controls of the paused preview; a video that is
\* at its end starts over
PreviewResume ==
    /\ previewVideo # Undefined /\ previewVideo[1].paused
    /\ previewVideo' =
          Some([currentTime |-> IF previewVideo[1].currentTime = ClipLength
                                THEN 0 ELSE previewVideo[1].currentTime,
                paused |-> FALSE])
    /\ UNCHANGED <<previewItem, listed, storeVars, mergeVars, cameraVars, editorVars, transactions>>

\* the X of the preview: setPreviewItem(null)
ClosePreview ==
    /\ previewItem # Undefined
    /\ previewItem' = Undefined
    /\ previewVideo' = Undefined
    /\ UNCHANGED <<listed, storeVars, mergeVars, cameraVars, editorVars, transactions>>

PreviewNext ==
    \/ HandleMediaClick
    \/ PreviewTimeUpdate
    \/ PreviewResume
    \/ ClosePreview

PreviewSpec == MergeInit /\ [][PreviewNext]_vars

\* -------------------------------------------------- CameraView: flag workflow
\* the view App shows; mediaId is 0 where the view has none
View(name, mediaId) == [name |-> name, mediaId |-> mediaId]

\* the session CameraView was opened for
sessionId == 1

\* the readings of Date.now() in the camera: the workflow never looks at a
\* timestamp, so one reading stands for all of them
CameraTimes == {0}

\* crypto.randomUUID() in saveMedia: an id that no stored item and no save in
\* flight has; the least one stands for any of them
freshSaveId(id) ==
    LET used == DOMAIN media \cup { s.item.id : s \in saves }
    IN  id \in MediaIds \ used /\ \A other \in MediaIds \ used : id <= other

\* saveMedia up to its `await addMediaItem(item)`: the item is built and the call
\* is in flight; `after` is what the caller does when the promise settles
saveMedia(id, t, blob, flagged, after) ==
    saves' = saves \cup
      { [item |-> [saveMediaItem(id, sessionId, t, flagged) EXCEPT !.blob = blob],
         after |-> after, status |-> "pending"] }

\* (mutant) the prompt is shown whatever the preference says
handleFlaggedAsks(id, t, blob) ==
    /\ pendingFlaggedBlob' = Some(blob)
    /\ showFlagModal' = TRUE
    /\ UNCHANGED saves

\* (mutant) the clip is saved at once and the prompt is shown as well
handleFlaggedSavesAndAsks(id, t, blob) ==
    /\ saveMedia(id, t, blob, TRUE, "none")
    /\ pendingFlaggedBlob' = Some(blob)
    /\ showFlagModal' = TRUE

\* handleFlaggedWorkflow
handleFlaggedWorkflow(id, t, blob) ==
    IF skipFlagPrompt
    THEN /\ saveMedia(id, t, blob, TRUE, "none")
         /\ UNCHANGED <<showFlagModal, pendingFlaggedBlob>>
    ELSE /\ pendingFlaggedBlob' = Some(blob)
         /\ showFlagModal' = TRUE
         /\ UNCHANGED saves

\* (mutant) every recording goes through the flag workflow
onstopAlwaysFlags(id, t, blob, isFlagged) == handleFlaggedWorkflow(id, t, blob)

\* mediaRecorder.onstop as finishRecording(isFlagged) sets it
onstop(id, t, blob, isFlagged) ==
    IF isFlagged
    THEN handleFlaggedWorkflow(id, t, blob)
    ELSE /\ saveMedia(id, t, blob, FALSE, "none")
         /\ UNCHANGED <<showFlagModal, pendingFlaggedBlob>>

\* (mutant) Fix Now opens the editor whether or not the save went through
fixNowAlwaysNavigates(s, mediaId) == View("trim", s.item.id)

\* handleModalFixNow after its await: if (mediaId) onNavigateToTrim(mediaId)
fixNowNavigates(s, mediaId) ==
    IF mediaId # Undefined THEN View("trim", mediaId[1]) ELSE view

\* what the caller of saveMedia does once the save s has settled with mediaId
\* (the id, or null after a failure); state of an unmounted CameraView is gone
afterSave(s, mediaId) ==
    /\ view' = IF s.after = "fixNow" THEN fixNowNavigates(s, mediaId) ELSE view
    /\ showFlagModal' = IF s.after # "none" /\ view.name = "camera"
                        THEN FALSE ELSE showFlagModal
    /\ pendingFlaggedBlob' = IF s.after = "justFlag" /\ view.name = "camera"
                             THEN Undefined ELSE pendingFlaggedBlob

\* (mutant) Just Flag stores the preference whether or not the box is checked
justFlagAlwaysSkips == TRUE

\* handleModalJustFlag: if (dontRemindFlag) Preferences.setShouldSkipFlagPrompt(true)
justFlagSkips == IF dontRemindFlag THEN TRUE ELSE skipFlagPrompt

\* CameraView as it mounts, with the preference as localStorage holds it
CameraInit ==
    /\ sessions = put(<< >>, newSession(sessionId, "Session", 0))
    /\ media = << >>
    /\ issued = <<sessionId>>
    /\ last = Call("none", 0, << >>, TRUE)
    /\ ops = 0
    /\ listed = << >>
    /\ isMerging = FALSE
    /\ mergeQueue = << >>
    /\ currentMergeIndex = 0
    /\ updates = << >>
    /\ video = Undefined
    /\ crashed = FALSE
    /\ previewItem = Undefined
    /\ previewVideo = Undefined
    /\ skipFlagPrompt \in BOOLEAN
    /\ isRecording = FALSE
    /\ stopping = Undefined
    /\ showFlagModal = FALSE
    /\ pendingFlaggedBlob = Undefined
    /\ dontRemindFlag = FALSE
    /\ saves = {}
    /\ view = View("camera", 0)
    /\ blobs = 0
    /\ crop = fullCrop
    /\ isDraggingCrop = FALSE
    /\ dragStartRef = Undefined
    /\ transactions = << >>

\* the record button; the prompt covers it while it is shown
StartRecording ==
    /\ view.name = "camera" /\ ~isRecording /\ ~showFlagModal
    /\ blobs < MaxMedia
    /\ isRecording' = TRUE
    /\ UNCHANGED <<skipFlagPrompt, stopping, showFlagModal, pendingFlaggedBlob,
                   dontRemindFlag, saves, view, blobs, storeVars, detailVars, editorVars, transactions>>

\* stopRecording / stopRecordingFlagged: a recording of less than 500 ms is
\* dropped, any other is handed to onstop once the recorder has stopped, which
\* it has before a next recording can be 500 ms long
FinishRecording ==
    /\ view.name = "camera" /\ isRecording /\ ~showFlagModal
    /\ stopping = Undefined
    /\ isRecording' = FALSE
    /\ \E isFlagged \in BOOLEAN, short \in BOOLEAN :
          stopping' = IF short THEN Undefined ELSE Some(isFlagged)
    /\ UNCHANGED <<skipFlagPrompt, showFlagModal, pendingFlaggedBlob,
                   dontRemindFlag, saves, view, blobs, storeVars, detailVars, editorVars, transactions>>

\* the recorder's stop event: the blob is built and onstop runs
RecorderStopped ==
    /\ view.name = "camera" /\ stopping # Undefined
    /\ stopping' = Undefined
    /\ blobs' = blobs + 1
    /\ \E id \in MediaIds, t \in CameraTimes :
          /\ freshSaveId(id)
          /\ onstop(id, t, blobs + 1, stopping[1])
    /\ UNCHANGED <<skipFlagPrompt, isRecording, dontRemindFlag, view, storeVars,
                   detailVars, editorVars, transactions>>

\* the `Do not remind me` box of the prompt
ToggleDontRemind ==
    /\ view.name = "camera" /\ showFlagModal
    /\ dontRemindFlag' = ~dontRemindFlag
    /\ UNCHANGED <<skipFlagPrompt, isRecording, stopping, showFlagModal,
                   pendingFlaggedBlob, saves, view, blobs, storeVars, detailVars, editorVars, transactions>>

\* handleModalFixNow, up to its await
HandleModalFixNow ==
    /\ view.name = "camera" /\ showFlagModal
    /\ pendingFlaggedBlob # Undefined
    /\ \E id \in MediaIds, t \in CameraTimes :
          /\ freshSaveId(id)
          /\ saveMedia(id, t, pendingFlaggedBlob[1], TRUE, "fixNow")
    /\ UNCHANGED <<skipFlagPrompt, isRecording, stopping, showFlagModal,
                   pendingFlaggedBlob, dontRemindFlag, view, blobs, storeVars,
                   detailVars, editorVars, transactions>>

\* handleModalJustFlag, up to its await
HandleModalJustFlag ==
    /\ view.name = "camera" /\ showFlagModal
    /\ pendingFlaggedBlob # Undefined
    /\ skipFlagPrompt' = justFlagSkips
    /\ \E id \in MediaIds, t \in CameraTimes :
          /\ freshSaveId(id)
          /\ saveMedia(id, t, pendingFlaggedBlob[1], TRUE, "justFlag")
    /\ UNCHANGED <<isRecording, stopping, showFlagModal, pendingFlaggedBlob,
                   dontRemindFlag, view, blobs, storeVars, detailVars, editorVars, transactions>>

\* the addMediaItem of a save in flight completes; saveMedia returns the id
SaveCompletes ==
    \E s \in saves, t \in CameraTimes :
       /\ s.status = "pending"
       /\ addMediaItem(s.item, t)
       /\ ops' = ops + 1
       /\ saves' = (saves \ {s}) \cup {[s EXCEPT !.status = "stored"]}
       /\ afterSave(s, Some(s.item.id))
       /\ UNCHANGED <<skipFlagPrompt, isRecording, stopping, dontRemindFlag, blobs,
                      detailVars, editorVars, transactions>>

\* the addMediaItem of a save in flight is rejected; saveMedia returns null
SaveFails ==
    \E s \in saves, t \in CameraTimes, step \in {"add", "put"} :
       /\ s.status = "pending"
       /\ addMediaItemFails(s.item, t, step)
       /\ ops' = ops + 1
       /\ saves' = (saves \ {s}) \cup {[s EXCEPT !.status = "failed"]}
       /\ afterSave(s, Undefined)
       /\ UNCHANGED <<skipFlagPrompt, isRecording, stopping, dontRemindFlag, blobs,
                      detailVars, editorVars, transactions>>

CameraNext ==
    \/ StartRecording
    \/ FinishRecording
    \/ RecorderStopped
    \/ ToggleDontRemind
    \/ HandleModalFixNow
    \/ HandleModalJustFlag
    \/ SaveCompletes
    \/ SaveFails

CameraSpec == CameraInit /\ [][CameraNext]_vars

\* ------------------------------------------------------ TrimView: crop editor

\* getTouchPos: the pointer relative to the video, here at its left or top
\* edge (0) or at its right or bottom edge (1)
Positions == { [x |-> px, y |-> py] : px \in {Zero, One}, py \in {Zero, One} }

\* the box and the four corner handles a drag can start on
CropActions == {"move", "nw", "ne", "sw", "se"}

\* start.action.includes(letter), for the corner actions
includes(action, letter) ==
    CASE letter = "e" -> action \in {"ne", "se"}
      [] letter = "s" -> action \in {"sw", "se"}
      [] letter = "w" -> action \in {"nw", "sw"}
      [] letter = "n" -> action \in {"nw", "ne"}

\* handleCropMove, the 'move' branch
moveCrop(start, deltaX, deltaY) ==
    [start.crop EXCEPT
       !.x = max(Zero, min(minus(One, start.crop.width), plus(start.crop.x, deltaX))),
       !.y = max(Zero, min(minus(One, start.crop.height), plus(start.crop.y, deltaY)))]

\* handleCropMove, the scaling branch: its four `if`s in the order of the code
scaleCrop(start, deltaX, deltaY) ==
    LET c0 == start.crop
        c1 == IF includes(start.action, "e")
              THEN [c0 EXCEPT !.width =
                       max(Tenth, min(minus(One, c0.x), plus(start.crop.width, deltaX)))]
              ELSE c0
        c2 == IF includes(start.action, "s")
              THEN [c1 EXCEPT !.height =
                       max(Tenth, min(minus(One, c1.y), plus(start.crop.height, deltaY)))]
              ELSE c1
        c3 == IF includes(start.action, "w")
              THEN LET maxDelta   == minus(start.crop.width, Tenth)
                       validDelta == min(max(deltaX, negate(start.crop.x)), maxDelta)
                   IN  [c2 EXCEPT !.x = plus(start.crop.x, validDelta),
                                  !.width = minus(start.crop.width, validDelta)]
              ELSE c2
        c4 == IF includes(start.action, "n")
              THEN LET maxDelta   == minus(start.crop.height, Tenth)
                       validDelta == min(max(deltaY, negate(start.crop.y)), maxDelta)
                   IN  [c3 EXCEPT !.y = plus(start.crop.y, validDelta),
                                  !.height = minus(start.crop.height, validDelta)]
              ELSE c3
    IN  c4

\* handleCropMove: the crop set for a pointer at pos, from the drag's start
newCrop(start, pos) ==
    LET deltaX == minus(pos.x, start.x)
        deltaY == minus(pos.y, start.y)
    IN  IF start.action = "move" THEN moveCrop(start, deltaX, deltaY)
                                 ELSE scaleCrop(start, deltaX, deltaY)

\* TrimView mounted on a flagged video that CameraView has stored
CropInit ==
    /\ sessions = put(<< >>, [newSession(sessionId, "Session", 0) EXCEPT !.itemCount = 1])
    /\ media = put(<< >>, saveMediaItem(1, sessionId, 0, TRUE))
    /\ issued = <<sessionId>>
    /\ last = Call("none", 0, << >>, TRUE)
    /\ ops = 0
    /\ listed = << >>
    /\ isMerging = FALSE
    /\ mergeQueue = << >>
    /\ currentMergeIndex = 0
    /\ updates = << >>
    /\ video = Undefined
    /\ crashed = FALSE
    /\ previewItem = Undefined
    /\ previewVideo = Undefined
    /\ skipFlagPrompt = FALSE
    /\ isRecording = FALSE
    /\ stopping = Undefined
    /\ showFlagModal = FALSE
    /\ pendingFlaggedBlob = Undefined
    /\ dontRemindFlag = FALSE
    /\ saves = {}
    /\ view = View("trim", 1)
    /\ blobs = 0
    /\ crop = fullCrop
    /\ isDraggingCrop = FALSE
    /\ dragStartRef = Undefined
    /\ transactions = << >>

\* mousedown or touchstart on the crop box or on one of its corner handles
HandleCropStart ==
    /\ view.name = "trim"
    /\ \E action \in CropActions, pos \in Positions :
          dragStartRef' = Some([x |-> pos.x, y |-> pos.y, crop |-> crop,
                                action |-> action])
    /\ isDraggingCrop' = TRUE
    /\ UNCHANGED <<crop, storeVars, detailVars, cameraVars, transactions>>

\* mousemove or touchmove on the overlay
HandleCropMove ==
    /\ view.name = "trim"
    /\ isDraggingCrop /\ dragStartRef # Undefined
    /\ \E pos \in Positions : crop' = newCrop(dragStartRef[1], pos)
    /\ UNCHANGED <<isDraggingCrop, dragStartRef, storeVars, detailVars, cameraVars, transactions>>

\* mouseup, mouseleave or touchend on the overlay
HandleCropEnd ==
    /\ view.name = "trim"
    /\ isDraggingCrop' = FALSE
    /\ dragStartRef' = Undefined
    /\ UNCHANGED <<crop, storeVars, detailVars, cameraVars, transactions>>

\* the reset button of the crop mode
ResetCrop ==
    /\ view.name = "trim"
    /\ crop' = fullCrop
    /\ UNCHANGED <<isDraggingCrop, dragStartRef, storeVars, detailVars, cameraVars, transactions>>

\* the confirmed save: performSave stores the item and onSave closes the editor
PerformSave ==
    /\ view.name = "trim"
    /\ view.mediaId \in DOMAIN media
    /\ \E t \in Times, endTime \in EndTimes :
          updateMediaItem(performSaveItem(media[view.mediaId], endTime, crop), t)
    /\ ops' = ops + 1
    /\ view' = View("session", 0)
    /\ UNCHANGED <<skipFlagPrompt, isRecording, stopping, showFlagModal,
                   pendingFlaggedBlob, dontRemindFlag, saves, blobs, detailVars,
                   editorVars, transactions>>

CropNext ==
    \/ HandleCropStart
    \/ HandleCropMove
    \/ HandleCropEnd
    \/ ResetCrop
    \/ PerformSave

CropSpec == CropInit /\ [][CropNext]_vars

\* ------------------------------------- addMediaItem, request by request
\* the transactions that have not completed
live == { i \in DOMAIN transactions : transactions[i].step # "done" }

\* (mutant) an engine that runs the requests of overlapping transactions as
\* they come
startsAtOnce(i) == TRUE

\* db.transaction([sessions, media], 'readwrite') on the one connection of
\* openDB: a readwrite transaction starts when every transaction created
\* before it over the same stores has finished
started(i) == \A j \in live : j >= i

\* an id crypto.randomUUID() has not handed out to a call in flight either
freshCallId(id) ==
    LET used == DOMAIN media \cup
                { transactions[i].item.id : i \in DOMAIN transactions }
    IN  /\ id \in MediaIds \ used
        /\ \A other \in MediaIds \ used : id <= other

\* the store with a session, and no addMediaItem call made yet
OverlapInit == CameraInit

\* a call of addMediaItem: the transaction is created with countReq and
\* sessionReq placed; the caller does not wait for an earlier call
CallAddMediaItem ==
    /\ \E id \in MediaIds, flagged \in BOOLEAN :
          /\ freshCallId(id)
          /\ transactions' = Append(transactions,
                [item |-> saveMediaItem(id, sessionId, 0, flagged),
                 step |-> "count", session |-> Undefined,
                 queuedBehind |-> Cardinality(live)])
    /\ UNCHANGED <<storeVars, detailVars, cameraVars, editorVars>>

\* countReq.onsuccess: item.order = count; mediaStore.add(item) is placed
CountSucceeds ==
    /\ \E i \in live :
          /\ started(i) /\ transactions[i].step = "count"
          /\ transactions' = [transactions EXCEPT
                ![i].item = withTailOrder(media, transactions[i].item),
                ![i].step = "get"]
    /\ UNCHANGED <<storeVars, detailVars, cameraVars, editorVars>>

\* sessionReq.onsuccess: the session read is changed and its put is placed
SessionSucceeds ==
    /\ \E i \in live, t \in Times :
          /\ started(i) /\ transactions[i].step = "get"
          /\ LET sid == transactions[i].item.sessionId
             IN  transactions' = [transactions EXCEPT
                    ![i].session = IF sid \in DOMAIN sessions
                                   THEN Some(bumpOnAdd(sessions, sid, t)[sid])
                                   ELSE Undefined,
                    ![i].step = "add"]
    /\ UNCHANGED <<storeVars, detailVars, cameraVars, editorVars>>

\* the engine runs mediaStore.add(item)
AddRuns ==
    /\ \E i \in live :
          /\ started(i) /\ transactions[i].step = "add"
          /\ transactions[i].item.id \notin DOMAIN media
          /\ media' = put(media, transactions[i].item)
          /\ transactions' = [transactions EXCEPT ![i].step = "put"]
    /\ UNCHANGED <<sessions, issued, last, ops, detailVars, cameraVars, editorVars>>

\* the engine runs sessionStore.put(session)
PutRuns ==
    /\ \E i \in live :
          /\ started(i) /\ transactions[i].step = "put"
          /\ sessions' = IF transactions[i].session = Undefined THEN sessions
                         ELSE put(sessions, transactions[i].session[1])
          /\ transactions' = [transactions EXCEPT ![i].step = "commit"]
    /\ UNCHANGED <<media, issued, last, ops, detailVars, cameraVars, editorVars>>

\* tx.oncomplete: the promise of the call resolves
TransactionCompletes ==
    /\ \E i \in live :
          /\ started(i) /\ transactions[i].step = "commit"
          /\ transactions' = [transactions EXCEPT ![i].step = "done"]
          /\ last' = Call("addMediaItem", transactions[i].item.sessionId,
                          <<transactions[i].item.id>>, TRUE)
    /\ ops' = ops + 1
    /\ UNCHANGED <<sessions, media, issued, detailVars, cameraVars, editorVars>>

OverlapNext ==
    \/ CallAddMediaItem
    \/ CountSucceeds
    \/ SessionSucceeds
    \/ AddRuns
    \/ PutRuns
    \/ TransactionCompletes

OverlapSpec == OverlapInit /\ [][OverlapNext]_vars

\* ===================================================================== properties
\* the arguments a store call can be given within the bounds
ItemArgs ==
    { <<id, sid, t0, t, flagged>> : id \in MediaIds, sid \in SessionIds,
                                    t0 \in Times, t \in Times, flagged \in BOOLEAN }

itemOf(a) == saveMediaItem(a[1], a[2], a[3], a[5])

\* the step is the call addMediaItem(itemOf(a)), reading the clock as a[4]
AddCall(a) ==
    /\ last'.ids = <<a[1]>> /\ last'.sid = a[2]
    /\ addMediaItem(itemOf(a), a[4])

\* the call the step completes
IsAdd == last'.op = "addMediaItem"
IsCreate == last'.op = "createSession"
IsDelete == last'.op = "deleteSession"
IsReorder == last'.op = "updateMediaItems"
IsUpdate == last'.op = "updateMediaItem"

\* ... and it stored a new item
AddStep(a) == AddCall(a) /\ last'.ok

\* C1: every stored session's itemCount equals the number of stored media items
\* that carry its id.
C1_ItemCountMatches ==
    \A sid \in DOMAIN sessions : sessions[sid].itemCount = countOfSession(media, sid)

\* the orders of the items of session sid are exactly 0..n-1, each once
gapFree(m, sid) ==
    LET keys == keysOfSession(m, sid)
    IN  /\ { m[k].order : k \in keys } = 0..(Cardinality(keys) - 1)
        /\ \A j, k \in keys : j # k => m[j].order # m[k].order

\* C2: in every reachable state the orders of each stored session's items are
\* exactly 0..n-1 without duplicates or gaps.
C2_OrdersGapFree == \A sid \in DOMAIN sessions : gapFree(media, sid)

\* C3: every stored media item's sessionId is the id of a stored session.
C3_NoOrphanItem == \A k \in DOMAIN media : media[k].sessionId \in DOMAIN sessions

\* C4 as stated: a successful addMediaItem for a stored session raises its
\* itemCount by exactly one and its lastModified strictly.
C4_AddStrictlyLater ==
    [][ IsAdd => \A a \in ItemArgs :
          (AddStep(a) /\ a[2] \in DOMAIN sessions) =>
             /\ sessions'[a[2]].itemCount = sessions[a[2]].itemCount + 1
             /\ sessions'[a[2]].lastModified > sessions[a[2]].lastModified ]_vars

\* C4 amended: a successful addMediaItem for a stored session raises its itemCount
\* by exactly one and sets its lastModified to the clock reading of the call, so
\* lastModified grows strictly exactly when that reading is later than the old value.
C4_AddBumpsSession ==
    [][ IsAdd => \A a \in ItemArgs :
          (AddStep(a) /\ a[2] \in DOMAIN sessions) =>
             /\ sessions'[a[2]].itemCount = sessions[a[2]].itemCount + 1
             /\ sessions'[a[2]].lastModified = a[4]
             /\ (sessions'[a[2]].lastModified > sessions[a[2]].lastModified)
                   <=> (a[4] > sessions[a[2]].lastModified) ]_vars

\* an add into a stored session has completed and moved lastModified forward
C4_Witness ==
    /\ last.op = "addMediaItem" /\ last.ok
    /\ last.sid \in DOMAIN sessions
    /\ sessions[last.sid].itemCount = 2
    /\ sessions[last.sid].lastModified > sessions[last.sid].createdAt

\* the orders of a listing, in its order
ordersOf(items) == [i \in 1..Len(items) |-> items[i].order]

\* C5: addMediaItem stores the item with order = the number of items its session
\* held before the insert, whatever order the caller supplied; a new session lists
\* nothing and counts 0, and an add to a session listed with orders 0..n-1 and
\* itemCount n appends the item at the tail: orders 0..n, itemCount n+1.
C5_AddAppendsAtTail ==
    [][ /\ IsAdd => \A a \in ItemArgs : AddStep(a) =>
              LET sid    == a[2]
                  n      == countOfSession(media, sid)
                  before == mediaForSession(media, sid)
                  after  == mediaForSession(media', sid)
              IN  /\ media'[a[1]] = [itemOf(a) EXCEPT !.order = n]
                  /\ (ordersOf(before) = [i \in 1..n |-> i - 1]) =>
                        /\ after = Append(before, media'[a[1]])
                        /\ ordersOf(after) = [i \in 1..(n + 1) |-> i - 1]
                  /\ (sid \in DOMAIN sessions /\ sessions[sid].itemCount = n) =>
                        sessions'[sid].itemCount = n + 1
        /\ IsCreate => \A name \in Names, id \in SessionIds, t \in Times :
              createSession(name, id, t) =>
                  /\ mediaForSession(media', id) = << >>
                  /\ sessions'[id].itemCount = 0 ]_vars

\* three adds in a row into one session: listed in insertion order with orders
\* 0,1,2 and itemCount 3, the last one stored with order 2 though 0 was supplied
C5_Witness ==
    /\ last.op = "addMediaItem" /\ last.ok
    /\ last.sid \in DOMAIN sessions
    /\ sessions[last.sid].itemCount = 3
    /\ ordersOf(getMediaForSession(last.sid)) = <<0, 1, 2>>
    /\ idsOf(getMediaForSession(last.sid)) = <<1, 2, 3>>
    /\ last.ids = <<3>>

\* C6: addMediaItem for a session id that is not stored fails and stores nothing.
C6_AddToMissingSessionFails ==
    [][ IsAdd => \A a \in ItemArgs :
          (AddCall(a) /\ a[2] \notin DOMAIN sessions) =>
              (~last'.ok /\ media' = media) ]_vars

\* C7: once deleteSession(id) has completed, getMediaForSession(id) is empty and
\* no session returned by getSessions has that id.
C7_DeleteRemovesAll ==
    (last.op = "deleteSession") =>
        /\ last.ok
        /\ getMediaForSession(last.sid) = << >>
        /\ \A i \in 1..Len(getSessions) : getSessions[i].id # last.sid
        /\ last.sid \notin DOMAIN sessions

\* a session that had been created, holding two items, has just been deleted
C7_Witness ==
    /\ last.op = "deleteSession"
    /\ last.sid \in Range(issued)
    /\ Len(last.ids) = 2

\* C8: deleteSession of an id that is not stored succeeds and leaves sessions and
\* media items exactly as they were.
C8_DeleteUnknownIsNoOp ==
    [][ IsDelete => \A id \in SessionIds :
          (deleteSession(id) /\ id \notin DOMAIN sessions) =>
              (last'.ok /\ sessions' = sessions /\ media' = media) ]_vars

\* ids lists every item of session sid exactly once
permutationOf(ids, sid) ==
    /\ Range(ids) = keysOfSession(media, sid)
    /\ Len(ids) = countOfSession(media, sid)

\* the step is the reorder that persists the list ids, loaded before some trim
ReorderCall(ids) ==
    \E stale \in SUBSET trimmed(Range(ids)) :
        updateMediaItems(dragEndUpdates(loadedCopies(ids, stale)))

\* C9: a reorder given a permutation ids of a session's item ids stores order =
\* index for each id, and getMediaForSession then lists the items as ids.
C9_ReorderListsAsGiven ==
    [][ IsReorder => \A ids \in {last'.ids}, sid \in SessionIds :
          (ReorderCall(ids) /\ permutationOf(ids, sid)) =>
              /\ \A i \in 1..Len(ids) : media'[ids[i]].order = i - 1
              /\ idsOf(mediaForSession(media', sid)) = ids ]_vars

\* the two items of a stored session have just been swapped
C9_Witness ==
    /\ last.op = "updateMediaItems" /\ last.ok
    /\ last.ids = <<2, 1>>
    /\ \E sid \in DOMAIN sessions :
          /\ idsOf(getMediaForSession(sid)) = <<2, 1>>
          /\ ordersOf(getMediaForSession(sid)) = <<0, 1>>

\* C10: a reorder whose id list is not a permutation of a session's item ids is
\* rejected and changes no stored item.
C10_BadReorderRejected ==
    [][ IsReorder => \A ids \in {last'.ids} :
          (ReorderCall(ids) /\ ~ \E sid \in SessionIds : permutationOf(ids, sid)) =>
              (~last'.ok /\ media' = media) ]_vars

UpdateCall(item, t) ==
    /\ last'.ids = <<item.id>> /\ last'.sid = item.sessionId
    /\ updateMediaItem(item, t)

\* C12: updateMediaItem for an id that is not stored, or for an item whose session
\* is not stored, fails and stores nothing.
C12_UpdateOfMissingFails ==
    [][ IsUpdate => \A a \in ItemArgs :
          ( /\ UpdateCall(itemOf(a), a[4])
            /\ (a[1] \notin DOMAIN media \/ a[2] \notin DOMAIN sessions) ) =>
              (~last'.ok /\ media' = media /\ sessions' = sessions) ]_vars

\* C13: a successful updateMediaItem(item) leaves item stored under its id, the
\* set of stored ids and every other item as they were, and in the owning session
\* sets lastModified to the clock reading of the call and changes nothing else.
C13_UpdateOverwrites ==
    [][ IsUpdate => \A a \in ItemArgs :
          (UpdateCall(itemOf(a), a[4]) /\ last'.ok) =>
              /\ media'[a[1]] = itemOf(a)
              /\ DOMAIN media' = DOMAIN media
              /\ \A k \in DOMAIN media \ {a[1]} : media'[k] = media[k]
              /\ a[2] \in DOMAIN sessions =>
                    sessions' = [sessions EXCEPT ![a[2]].lastModified = a[4]] ]_vars

\* C14: no step lowers the lastModified of a session that stays stored.
C14_LastModifiedMonotone ==
    [][ \A sid \in (DOMAIN sessions) \cap (DOMAIN sessions') :
          sessions'[sid].lastModified >= sessions[sid].lastModified ]_vars

\* C15: a call that reports failure leaves both stores, and so every later
\* read, exactly as they were before the call.
C15_FailedCallChangesNothing ==
    [][ ~last'.ok =>
          /\ sessions' = sessions /\ media' = media
          /\ sessionsOf(sessions') = getSessions
          /\ \A sid \in SessionIds :
                mediaForSession(media', sid) = getMediaForSession(sid) ]_vars

\* a deleteSession has failed and the stored session still lists its two items
C15_Witness ==
    /\ last.op = "deleteSession" /\ ~last.ok
    /\ \E sid \in DOMAIN sessions :
          /\ sessions[sid].itemCount = 2
          /\ Len(getMediaForSession(sid)) = 2

\* C16: the promise of every call made so far has settled.
C16_EveryCallSettles == last.settled

\* where a session id stands in the order of insertion
insertedAt(id) == CHOOSE n \in 1..Len(issued) : issued[n] = id

\* C17: getSessions lists every stored session once, by lastModified descending,
\* and sessions with equal lastModified in the order they were inserted.
C17_SessionsListedInOrder ==
    LET L == getSessions
    IN  /\ Len(L) = Cardinality(DOMAIN sessions)
        /\ \A i \in 1..Len(L) : L[i].id \in DOMAIN sessions /\ L[i] = sessions[L[i].id]
        /\ \A i, j \in 1..Len(L) : i < j =>
              \/ L[i].lastModified > L[j].lastModified
              \/ /\ L[i].lastModified = L[j].lastModified
                 /\ insertedAt(L[i].id) < insertedAt(L[j].id)

\* C18: getMediaForSession(sid) lists exactly the stored items whose sessionId is
\* sid, each once, by order ascending and items of equal order by createdAt
\* ascending.
C18_MediaListedInOrder ==
    \A sid \in SessionIds :
       LET L == getMediaForSession(sid)
       IN  /\ Len(L) = countOfSession(media, sid)
           /\ Range(idsOf(L)) = keysOfSession(media, sid)
           /\ \A i \in 1..Len(L) : L[i] = media[L[i].id]
           /\ \A i, j \in 1..Len(L) : i < j =>
                 \/ L[i].order < L[j].order
                 \/ L[i].order = L[j].order /\ L[i].createdAt <= L[j].createdAt

\* two items of one session share an order and the one created earlier, stored
\* under the greater key, is listed first
C18_Witness ==
    \E sid \in SessionIds :
       LET L == getMediaForSession(sid)
       IN  /\ Len(L) = 2
           /\ L[1].order = L[2].order
           /\ L[1].createdAt < L[2].createdAt
           /\ L[1].id > L[2].id

\* C19: no step changes the id, sessionId, createdAt or blob of an item that
\* stays stored.
C19_IdentityFieldsKept ==
    [][ \A k \in (DOMAIN media) \cap (DOMAIN media') :
          /\ media'[k].id = media[k].id
          /\ media'[k].sessionId = media[k].sessionId
          /\ media'[k].createdAt = media[k].createdAt
          /\ media'[k].blob = media[k].blob ]_vars

\* a flagged item was trimmed, and a reorder has then persisted a list holding it
C19_Witness ==
    /\ last.op = "updateMediaItems" /\ last.ok
    /\ \E k \in Range(last.ids) :
          /\ k \in DOMAIN media
          /\ media[k].trimEndTime # Undefined
          /\ media[k].createdAt = 0

\* the merge plays clip i (0-based) and no update is waiting for a render
Playing(i) ==
    /\ ~crashed /\ isMerging /\ updates = << >>
    /\ currentMergeIndex = i /\ i < Len(mergeQueue)
    /\ video # Undefined /\ video[1].key = mergeQueue[i + 1].id

\* the step reports the end of the video, or a position at or past the trim
\* boundary of clip i
Notified(i) ==
    /\ video # Undefined /\ video' # Undefined
    /\ \/ ~video[1].ended /\ video'[1].ended
       \/ /\ video'[1].currentTime > video[1].currentTime
          /\ mergeQueue[i + 1].trimEndTime # Undefined
          /\ video'[1].currentTime >= mergeQueue[i + 1].trimEndTime[1]

\* C20: while clip i of the queue plays, a report of a position at or past its
\* trim boundary, or of its end, makes the sequencer advance, and the advance
\* ends the merge if i is the last index and otherwise leaves clip i+1 playing
\* from position 0.
C20_SequencerAdvances ==
    [][ \A i \in 0..(Len(mergeQueue) - 1) :
          LET advance == IF i = Len(mergeQueue) - 1 THEN "stop" ELSE "inc"
          IN  /\ (Playing(i) /\ Notified(i)) => updates' = <<advance>>
              /\ (isMerging /\ currentMergeIndex = i /\ updates = <<advance>> /\ Render) =>
                    IF i = Len(mergeQueue) - 1
                    THEN ~isMerging' /\ video' = Undefined
                    ELSE /\ isMerging' /\ ~crashed' /\ updates' = << >>
                         /\ currentMergeIndex' = i + 1
                         /\ video' = Some([key |-> mergeQueue[i + 2].id,
                                            currentTime |-> 0, ended |-> FALSE]) ]_vars

\* C21: an unaborted merge plays the clips of the queue in order, each index
\* once: it starts at index 0, every render that keeps it going steps the index
\* by one to a clip of the queue, and it ends only after the last index, however
\* the position reports and the end of a clip are delivered.
C21_EveryClipOnceInOrder ==
    [][ /\ (~isMerging /\ isMerging') =>
              currentMergeIndex' = 0 /\ ~crashed' /\ video' # Undefined
        /\ (isMerging /\ Render) =>
              /\ ~crashed'
              /\ IF isMerging'
                 THEN /\ currentMergeIndex' = currentMergeIndex + 1
                      /\ currentMergeIndex' < Len(mergeQueue)
                 ELSE currentMergeIndex = Len(mergeQueue) - 1 ]_vars

\* the position at which a clip is to end: trimEndTime if present, else duration
effectiveEnd(item) ==
    IF item.trimEndTime # Undefined THEN item.trimEndTime[1] ELSE item.duration

\* C22: a clip of the queue whose effective end is 0 or less is not played: the
\* player never reports a position past 0, or the end, of such a clip.
C22_EmptyClipNotPlayed ==
    \A i \in 0..(Len(mergeQueue) - 1) :
       ( /\ isMerging /\ video # Undefined
         /\ video[1].key = mergeQueue[i + 1].id
         /\ effectiveEnd(mergeQueue[i + 1]) <= 0 )
       => video[1].currentTime = 0 /\ ~video[1].ended

\* C23: the X of the player can be clicked whenever a clip plays; the click ends
\* the merge, unmounts the video and drops the queued updates, so that nothing
\* is played or stepped while no merge runs; the next merge starts at clip 0 from
\* position 0; and the stores are left as they are.
C23_AbortStopsPlayback ==
    [][ /\ (isMerging /\ ~crashed /\ video # Undefined) => ENABLED CloseMerge
        /\ CloseMerge => ~isMerging'
        /\ (isMerging /\ ~isMerging') =>
              video' = Undefined /\ updates' = << >> /\ UNCHANGED storeVars
        /\ (~isMerging /\ ~isMerging') =>
              UNCHANGED <<video, updates, currentMergeIndex, mergeQueue>>
        /\ (~isMerging /\ isMerging') =>
              /\ currentMergeIndex' = 0
              /\ video' = Some([key |-> mergeQueue'[1].id, currentTime |-> 0,
                                 ended |-> FALSE]) ]_vars

\* a merge was closed before its last clip, with a clip left unplayed
C23_Witness ==
    /\ ~isMerging /\ ~crashed /\ video = Undefined
    /\ Len(mergeQueue) > 1 /\ currentMergeIndex < Len(mergeQueue) - 1

\* C24: in the preview of a video that has a trimEndTime, every handled position
\* report at or past trimEndTime leaves the video paused at trimEndTime, also
\* after the user has resumed it, so no report leaves it past the boundary.
C24_PreviewClamped ==
    [][ ( /\ previewVideo # Undefined /\ previewVideo' # Undefined
          /\ previewItem[1].trimEndTime # Undefined
          /\ PreviewTimeUpdate )
        => /\ previewVideo'[1].currentTime <= previewItem[1].trimEndTime[1]
           /\ previewVideo'[1].currentTime = previewItem[1].trimEndTime[1]
                => previewVideo'[1].paused ]_vars

\* the step in which the recorder's stop event of a recording is handled
Stopped(isFlagged) == stopping = Some(isFlagged) /\ stopping' = Undefined

\* the step starts exactly one save, of the blob just built, and it is s
Starts(s) ==
    /\ s \notin saves /\ saves' = saves \cup {s}
    /\ s.status = "pending"

\* the step stores the item of the save s
Stores(s) ==
    /\ s \in saves /\ s.status = "pending"
    /\ [s EXCEPT !.status = "stored"] \in saves'
    /\ s.item.id \notin DOMAIN media /\ s.item.id \in DOMAIN media'
    /\ media'[s.item.id].blob = s.item.blob
    /\ media'[s.item.id].trimNeeded = s.item.trimNeeded

\* C25: when a recording finished with the plain stop has stopped, the save of
\* its clip starts in the same step with trimNeeded = false, whatever the
\* preference is; the prompt is not shown and never holds that clip, and the
\* save stores the clip with trimNeeded = false.
C25_PlainStopSavesUnflagged ==
    [][ /\ Stopped(FALSE) =>
              /\ \E s \in saves' : /\ Starts(s) /\ s.item.blob = blobs'
                                   /\ ~s.item.trimNeeded /\ s.after = "none"
              /\ ~showFlagModal' /\ pendingFlaggedBlob' = pendingFlaggedBlob
        /\ \A s \in saves :
              /\ ~s.item.trimNeeded => pendingFlaggedBlob' # Some(s.item.blob)
              /\ (~s.item.trimNeeded /\ s.status = "pending" /\ SaveCompletes
                     /\ [s EXCEPT !.status = "stored"] \in saves') => Stores(s)
      ]_vars

\* the clip of a plain stop has been stored
C25_Witness ==
    \E s \in saves : /\ ~s.item.trimNeeded /\ s.status = "stored"
                     /\ s.item.id \in DOMAIN media
                     /\ ~media[s.item.id].trimNeeded

\* C26: with the preference set, when a recording finished with the flagged
\* stop has stopped, the save of its clip starts in the same step with
\* trimNeeded = true; the prompt is not shown and never holds that clip, and the
\* save stores the clip with trimNeeded = true.
C26_SuppressedPromptSavesFlagged ==
    [][ /\ (Stopped(TRUE) /\ skipFlagPrompt) =>
              /\ \E s \in saves' : /\ Starts(s) /\ s.item.blob = blobs'
                                   /\ s.item.trimNeeded /\ s.after = "none"
              /\ ~showFlagModal' /\ pendingFlaggedBlob' = pendingFlaggedBlob
        /\ \A s \in saves :
              (s.item.trimNeeded /\ s.after = "none") =>
                 /\ pendingFlaggedBlob' # Some(s.item.blob)
                 /\ (s.status = "pending" /\ SaveCompletes
                       /\ [s EXCEPT !.status = "stored"] \in saves') => Stores(s)
      ]_vars

\* a flagged clip has been stored without a prompt
C26_Witness ==
    \E s \in saves : /\ s.item.trimNeeded /\ s.after = "none" /\ s.status = "stored"
                     /\ s.item.id \in DOMAIN media
                     /\ media[s.item.id].trimNeeded

\* the saves a resolving action of the prompt has started
resolving == { s \in saves : s.after \in {"fixNow", "justFlag"} }

\* C27: with the preference not set, when a recording finished with the flagged
\* stop has stopped, the prompt is shown holding its clip and nothing is saved;
\* while the prompt is shown the only saves started are those of Fix Now and Just
\* Flag, for the clip it holds and with trimNeeded = true; the prompt goes only
\* when such a save settles; and a stored item of the held clip, or of any save
\* started from the prompt, has trimNeeded = true.
C27_PromptHoldsClipUntilResolved ==
    [][ /\ (Stopped(TRUE) /\ ~skipFlagPrompt) =>
              /\ showFlagModal' /\ pendingFlaggedBlob' = Some(blobs')
              /\ saves' = saves /\ media' = media
              /\ \A k \in DOMAIN media : media[k].blob # blobs'
        /\ showFlagModal =>
              /\ \A s \in saves' \ saves :
                    s.status = "pending" =>
                       /\ s.after \in {"fixNow", "justFlag"}
                       /\ s.item.blob = pendingFlaggedBlob[1]
                       /\ s.item.trimNeeded
              /\ ~showFlagModal' =>
                    \E s \in resolving : s.status = "pending" /\ s \notin saves'
        /\ \A k \in DOMAIN media' :
              \/ \E s \in saves : /\ s.after = "none" /\ s.item.id = k
              \/ /\ media'[k].trimNeeded
                 /\ \E s \in resolving : s.item.id = k /\ s.item.blob = media'[k].blob
      ]_vars

\* the prompt is shown and nothing of the clip it holds is saved or stored
C27_Witness ==
    /\ showFlagModal /\ pendingFlaggedBlob # Undefined
    /\ \A s \in saves : s.item.blob # pendingFlaggedBlob[1]
    /\ \A k \in DOMAIN media : media[k].blob # pendingFlaggedBlob[1]
    /\ DOMAIN media # {}

\* C28: Fix Now starts the save of the held clip with trimNeeded = true and
\* leaves the view alone; the trim editor is opened only in the step in which
\* such a save has stored its item, and for the id of that item, so the editor
\* is never opened for an id that is not stored.
C28_FixNowNavigatesAfterStore ==
    [][ /\ \A s \in saves' \ saves :
              (s.status = "pending" /\ s.after = "fixNow") =>
                 /\ view' = view /\ media' = media
                 /\ s.item.trimNeeded /\ s.item.blob = pendingFlaggedBlob[1]
        /\ \A s \in saves :
              (s.after = "fixNow" /\ Stores(s)) => view' = View("trim", s.item.id)
        /\ view' # view =>
              \E s \in saves : /\ s.after = "fixNow" /\ Stores(s)
                               /\ view' = View("trim", s.item.id)
        /\ view'.name = "trim" =>
              /\ view'.mediaId \in DOMAIN media'
              /\ media'[view'.mediaId].trimNeeded
      ]_vars

\* the trim editor has been opened for an item Fix Now stored
C28_Witness ==
    /\ view.name = "trim" /\ view.mediaId \in DOMAIN media
    /\ \E s \in saves : /\ s.after = "fixNow" /\ s.status = "stored"
                        /\ s.item.id = view.mediaId

\* C29: Just Flag starts the save of the held clip with trimNeeded = true and
\* sets the preference if the box is checked, leaving it as it is otherwise;
\* nothing else changes the preference, Fix Now in particular; and the save
\* stores the clip with trimNeeded = true.
C29_OnlyJustFlagSetsPreference ==
    [][ /\ \A s \in saves' \ saves :
              s.status = "pending" =>
                 IF s.after = "justFlag"
                 THEN /\ s.item.trimNeeded /\ s.item.blob = pendingFlaggedBlob[1]
                      /\ skipFlagPrompt' = (dontRemindFlag \/ skipFlagPrompt)
                 ELSE skipFlagPrompt' = skipFlagPrompt
        /\ skipFlagPrompt' # skipFlagPrompt =>
              /\ dontRemindFlag /\ skipFlagPrompt'
              /\ \E s \in saves' \ saves : s.after = "justFlag"
        /\ \A s \in saves :
              (s.after = "justFlag" /\ s.status = "pending" /\ SaveCompletes
                 /\ [s EXCEPT !.status = "stored"] \in saves') => Stores(s)
      ]_vars

\* Just Flag with the box checked has set the preference and stored the clip
C29_Witness ==
    /\ skipFlagPrompt /\ dontRemindFlag
    /\ \E s \in saves : /\ s.after = "justFlag" /\ s.status = "stored"
                        /\ media[s.item.id].trimNeeded

\* C30: no clip the recorder has built is stored as more than one media item,
\* also when a button of the prompt is pressed again while a save is in flight.
C30_OneItemPerClip ==
    \A b \in 1..blobs : Cardinality({ k \in DOMAIN media : media[k].blob = b }) <= 1

\* a rectangle inside the video frame, with a positive area; the two sums
\* are taken as the program would compute them, which passes a rectangle
\* whose exact sum exceeds 1 by less than the rounding
insideFrame(c) ==
    /\ lessEq(Zero, c.x) /\ lessEq(Zero, c.y)
    /\ less(Zero, c.width) /\ less(Zero, c.height)
    /\ lessEq(plus(c.x, c.width), One)
    /\ lessEq(plus(c.y, c.height), One)

\* C31: every crop rectangle the editor reaches by move drags, corner drags
\* and resets, and every crop a save has stored, has x >= 0, y >= 0,
\* width > 0, height > 0, x + width <= 1 and y + height <= 1.
C31_CropInsideFrame ==
    /\ insideFrame(crop)
    /\ \A id \in DOMAIN media :
          media[id].crop # Undefined => insideFrame(media[id].crop[1])

\* C32: a trim save stores its item with trimEndTime and duration equal to the
\* selected end time, with the editor's crop and with trimNeeded false, changes
\* no other field of it (its order stays), and sets the lastModified of its
\* session to the clock reading of the save; and no other step turns the
\* trimNeeded of a stored item from true to false.
C32_TrimSaveStoresTrim ==
    [][ /\ IsUpdate =>
             \A id \in DOMAIN media, t \in Times, endTime \in EndTimes, rect \in Crops :
                (UpdateCall(performSaveItem(media[id], endTime, rect), t) /\ last'.ok) =>
                    /\ media'[id].trimEndTime = Some(endTime)
                    /\ media'[id].duration = endTime
                    /\ media'[id].crop = Some(rect)
                    /\ ~media'[id].trimNeeded
                    /\ media'[id].order = media[id].order
                    /\ media'[id] = [media[id] EXCEPT !.trimEndTime = Some(endTime),
                                                      !.duration = endTime,
                                                      !.crop = Some(rect),
                                                      !.trimNeeded = FALSE]
                    /\ media[id].sessionId \in DOMAIN sessions =>
                          sessions'[media[id].sessionId].lastModified = t
        /\ \A id \in (DOMAIN media) \cap (DOMAIN media') :
              (media[id].trimNeeded /\ ~media'[id].trimNeeded) =>
                  (IsUpdate /\ last'.ok /\ last'.ids = <<id>>) ]_vars

\* a trim has been saved for the second item of a session, at a later clock
\* reading than the session's creation
C32_Witness ==
    /\ last.op = "updateMediaItem" /\ last.ok
    /\ \E id \in DOMAIN media :
          /\ last.ids = <<id>>
          /\ media[id].order = 1
          /\ ~media[id].trimNeeded
          /\ media[id].trimEndTime = Some(1)
          /\ media[id].duration = 1
          /\ media[id].crop = Some(fullCrop)
          /\ media[id].sessionId \in DOMAIN sessions
          /\ sessions[media[id].sessionId].lastModified
                > sessions[media[id].sessionId].createdAt

\* C33: with the notifications of every playing clip delivered, a merge that
\* has started comes to its end (the player is closed, by the last clip or by
\* the X), and while no merge is on, no clip is mounted to play.
C33_MergeReachesDone ==
    /\ [](~isMerging => video = Undefined)
    /\ (isMerging ~> ~isMerging)

\* C34: the step that starts a merge sets the queue to the videos of the list
\* the session view shows, in the order of that list and without its photos,
\* and no step changes the queue while the merge is on.
C34_QueueIsListedVideos ==
    [][ /\ (~isMerging /\ isMerging') =>
              mergeQueue' = SelectSeq(listed, LAMBDA m : m.type = "video")
        /\ isMerging => mergeQueue' = mergeQueue ]_vars

\* a merge over a list with a photo between two videos plays its second clip
C34_Witness ==
    /\ isMerging /\ ~crashed
    /\ Len(listed) = 3
    /\ listed[1].type = "video" /\ listed[2].type = "photo" /\ listed[3].type = "video"
    /\ mergeQueue = <<listed[1], listed[3]>>
    /\ currentMergeIndex = 1
    /\ video # Undefined /\ video[1].key = listed[3].id

\* C35: addMediaItem calls made for one stored session without waiting for one
\* another all complete without losing an order or an increment: once the
\* k calls made so far have completed, their items hold the orders that follow
\* one another from 0 to k - 1, each once, and itemCount has grown by k.
C35_OverlappingAddsBothCount ==
    live = {} =>
       LET ids == { transactions[i].item.id : i \in DOMAIN transactions }
       IN  /\ ids \subseteq DOMAIN media
           /\ \A i, j \in ids : i # j => media[i].order # media[j].order
           /\ { media[i].order : i \in ids } = 0..(Len(transactions) - 1)
           /\ sessions[sessionId].itemCount = Len(transactions)
           /\ countOfSession(media, sessionId) = Len(transactions)

\* two calls have completed, the second made while the first was in flight
C35_Witness ==
    /\ Len(transactions) = 2 /\ live = {}
    /\ transactions[2].queuedBehind = 1
    /\ media[transactions[1].item.id].order = 0
    /\ media[transactions[2].item.id].order = 1
    /\ sessions[sessionId].itemCount = 2

\* C36: deleteSession(id) leaves every session record other than id, and every
\* media item whose sessionId is not id, stored and unchanged.
C36_DeleteLeavesOthers ==
    [][ IsDelete =>
          /\ \A sid \in (DOMAIN sessions) \ {last'.sid} :
                sid \in DOMAIN sessions' /\ sessions'[sid] = sessions[sid]
          /\ \A k \in DOMAIN media :
                media[k].sessionId # last'.sid =>
                    (k \in DOMAIN media' /\ media'[k] = media[k]) ]_vars

\* a session has been deleted while another session and an item of it are stored
C36_Witness ==
    /\ last.op = "deleteSession" /\ last.ok
    /\ last.sid \in Range(issued)
    /\ \E k \in DOMAIN media :
          /\ media[k].sessionId # last.sid
          /\ media[k].sessionId \in DOMAIN sessions
          /\ sessions[media[k].sessionId].itemCount = 1

====
